---- MODULE Spec2Model ----
(***************************************************************************)
(* Model of hatchet/utils/plot_cn_1d2d.py: the state codec (str2state,     *)
(* str2cn, cn2total), the state indexer (reindex), the gamma estimator     *)
(* (compute_gamma), the expected-value projector (cn2evs) and the          *)
(* composition root generate_1D2D_plots.                                   *)
(*                                                                         *)
(* Strings are sequences of one-character strings, so that split, int and  *)
(* the 'chr' prefix are computed, not assumed.  Real numbers are exact     *)
(* fractions <<n, d>> with d > 0 in lowest terms; NaN is a value of its    *)
(* own.  Python exceptions are the "err" field of a call's outcome.        *)
(***************************************************************************)
EXTENDS Integers, Sequences, FiniteSets, TLC

VARIABLES
    pc,        \* position of the run: which call is ready or has ended
    labels,    \* reindex: the argument
    calls,     \* reindex: what each invocation so far returned
    token,     \* state codec: the argument
    parsed,    \* state codec: outcome of the parser applied
    cns,       \* cn2evs: the states argument
    props,     \* cn2evs: the proportions argument
    evs,       \* cn2evs: outcome
    bbc,       \* the bin table handed to compute_gamma / generate_1D2D_plots
    picks,     \* compute_gamma: the values largest_balanced took, in order
    gamma,     \* compute_gamma: outcome
    work,      \* generate_1D2D_plots: its local bbc (after the 'chr' step)
    chr_ends,  \* generate_1D2D_plots: the list chr_ends
    mapping,   \* generate_1D2D_plots: the dict returned by reindex
    err,       \* generate_1D2D_plots: the exception that ended it, or "none"
    resample,  \* generate_1D2D_plots: the argument resample_balanced
    passed,    \* generate_1D2D_plots: the bbc it hands to the two plot functions
    order,     \* the process: iteration order of the set balanced_options
    clusters,  \* plot_clusters: what it computed and drew
    genome     \* plot_genome: what it computed and drew

reindexVars == <<labels, calls>>
codecVars == <<token, parsed>>
evsVars == <<cns, props, evs>>
gammaVars == <<picks, gamma>>
plotVars == <<work, chr_ends, mapping, err, resample, passed, order, clusters, genome>>

vars == <<pc, reindexVars, codecVars, evsVars, bbc, gammaVars, plotVars>>

-----------------------------------------------------------------------------
(* Bounds of the model *)

MaxLabels == 4
MaxTokLen == 5
MaxClonesEvs == 2
MaxBins == 3
MaxBins2 == 2
MaxExtra == 2
MaxStates == 41
MaxDrawExtra == 1

\* the largest number of tumor clones of the one-sample tables
MaxClonesWide == 5

-----------------------------------------------------------------------------
(* Generic helpers *)

Range(s) == {s[i] : i \in 1..Len(s)}

SeqsUpTo(S, n) == UNION {[1..k -> S] : k \in 0..n}

NonEmptySeqsUpTo(S, n) == UNION {[1..k -> S] : k \in 1..n}

Abs(x) == IF x < 0 THEN -x ELSE x

RECURSIVE GCD(_, _)
GCD(a, b) == IF b = 0 THEN a ELSE GCD(b, a % b)

-----------------------------------------------------------------------------
(* Exact fractions standing for Python/numpy floats *)

Frac(n, d) ==
    LET g == GCD(Abs(n), Abs(d))
        s == IF d < 0 THEN -1 ELSE 1
    IN  <<(s * n) \div g, (s * d) \div g>>

FInt(n) == <<n, 1>>

FAdd(x, y) == Frac(x[1] * y[2] + y[1] * x[2], x[2] * y[2])

FMul(x, y) == Frac(x[1] * y[1], x[2] * y[2])

FDiv(x, y) == Frac(x[1] * y[2], x[2] * y[1])

FIsZero(x) == x[1] = 0

FPos(x) == x[1] > 0

\* the sum of s[lo..hi], added up by halves (exact, so in any order)
RECURSIVE FSumIn(_, _, _)
FSumIn(s, lo, hi) ==
    IF lo > hi THEN FInt(0)
    ELSE IF lo = hi THEN FAdd(s[lo], FInt(0))
    ELSE LET m == (lo + hi) \div 2
         IN  FAdd(FSumIn(s, lo, m), FSumIn(s, m + 1, hi))

FSum(s) == FSumIn(s, 1, Len(s))

NaN == <<0, 0>>

-----------------------------------------------------------------------------
(* Characters and strings *)

Digits == <<"0", "1", "2", "3", "4", "5", "6", "7", "8", "9">>

DigitSet == Range(Digits)

IsDigit(c) == c \in DigitSet

DigitVal(c) == CHOOSE v \in 0..9 : Digits[v + 1] = c

\* ASCII code of the characters the model uses (order of str comparison)
Ord(c) ==
    IF IsDigit(c) THEN 48 + DigitVal(c)
    ELSE CASE c = "#" -> 35
           [] c = "c" -> 99
           [] c = "h" -> 104
           [] c = "r" -> 114
           [] c = "x" -> 120
           [] c = "|" -> 124

\* Python's str(int) for a non-negative integer
RECURSIVE IntToStr(_)
IntToStr(n) ==
    IF n < 10 THEN <<Digits[n + 1]>>
    ELSE Append(IntToStr(n \div 10), Digits[(n % 10) + 1])

\* "{A}|{B}": the token of state (A, B)
Tok(a, b) == IntToStr(a) \o <<"|">> \o IntToStr(b)

\* f'chr{i}'
Chr(i) == <<"c", "h", "r">> \o IntToStr(i)

\* Python's str.split(sep) for a one-character separator
RECURSIVE Split(_, _)
Split(s, sep) ==
    IF \A i \in 1..Len(s) : s[i] # sep THEN <<s>>
    ELSE LET k == CHOOSE i \in 1..Len(s) :
                      s[i] = sep /\ \A j \in 1..(i - 1) : s[j] # sep
         IN  <<SubSeq(s, 1, k - 1)>> \o Split(SubSeq(s, k + 1, Len(s)), sep)

\* Whether Python's int(s) succeeds, for strings over the model's alphabet
IntParseable(s) == Len(s) > 0 /\ \A i \in 1..Len(s) : IsDigit(s[i])

RECURSIVE IntParse(_)
IntParse(s) ==
    IF Len(s) = 0 THEN 0
    ELSE 10 * IntParse(SubSeq(s, 1, Len(s) - 1)) + DigitVal(s[Len(s)])

\* Python's comparison of two str values: -1, 0 or 1
RECURSIVE StrCmp(_, _)
StrCmp(s, t) ==
    IF s = <<>> /\ t = <<>> THEN 0
    ELSE IF s = <<>> THEN -1
    ELSE IF t = <<>> THEN 1
    ELSE IF Ord(Head(s)) < Ord(Head(t)) THEN -1
    ELSE IF Ord(Head(s)) > Ord(Head(t)) THEN 1
    ELSE StrCmp(Tail(s), Tail(t))

-----------------------------------------------------------------------------
(* Outcome of a call: a returned value or a raised exception *)

Ok(v) == [err |-> "none", val |-> v]

Raise(e) == [err |-> e, val |-> <<>>]

NoCall == [err |-> "nocall", val |-> <<>>]

Returned(r) == r.err = "none"

Raised(r) == r.err \notin {"none", "nocall"}

-----------------------------------------------------------------------------
(* StateCodec: str2cn, str2state, cn2total *)

\* tuple([int(a) for a in x.split('|')])
str2state(cn) ==
    LET tkns == Split(cn, "|")
    IN  IF \E i \in 1..Len(tkns) : ~IntParseable(tkns[i])
        THEN Raise("ValueError")
        ELSE Ok([i \in 1..Len(tkns) |-> IntParse(tkns[i])])

str2cn(x) ==
    LET tkns == Split(x, "|")
    IN  IF \E i \in 1..Len(tkns) : ~IntParseable(tkns[i])
        THEN Raise("ValueError")
        ELSE Ok([i \in 1..Len(tkns) |-> IntParse(tkns[i])])

cn2total(s) ==
    LET tkns == Split(s, "|")
    IN  IF Len(tkns) # 2 THEN Raise("AssertionError")
        ELSE IF ~IntParseable(tkns[1]) \/ ~IntParseable(tkns[2])
             THEN Raise("ValueError")
        ELSE Ok(IntParse(tkns[1]) + IntParse(tkns[2]))

-----------------------------------------------------------------------------
(* StateIndexer: reindex *)

RECURSIVE Distinct(_)
\* keys of Counter(labels): the distinct labels in first-occurrence order
Distinct(s) ==
    IF s = <<>> THEN <<>>
    ELSE LET d == Distinct(SubSeq(s, 1, Len(s) - 1))
         IN  IF s[Len(s)] \in Range(d) THEN d ELSE Append(d, s[Len(s)])

\* Counter(labels)[x]
Count(s, x) == Cardinality({i \in 1..Len(s) : s[i] = x})

RECURSIVE InsertDesc(_, _, _)
\* x placed after every element whose count is >= its own (stable)
InsertDesc(sorted, x, s) ==
    IF sorted = <<>> THEN <<x>>
    ELSE IF Count(s, Head(sorted)) >= Count(s, x)
         THEN <<Head(sorted)>> \o InsertDesc(Tail(sorted), x, s)
         ELSE <<x>> \o sorted

RECURSIVE SortDesc(_, _)
SortDesc(keys, s) ==
    IF keys = <<>> THEN <<>>
    ELSE InsertDesc(SortDesc(SubSeq(keys, 1, Len(keys) - 1), s), keys[Len(keys)], s)

most_common_unsorted(s) == Distinct(s)

\* Counter(labels).most_common(): sorted(items, key = count, reverse = True)
most_common(s) == SortDesc(Distinct(s), s)

\* the dict old2new and the list [old2new[a] for a in labels]
reindex(s) ==
    LET mc  == most_common(s)
        o2n == [k \in Range(mc) |-> CHOOSE j \in 1..Len(mc) : mc[j] = k]
    IN  [list |-> [i \in 1..Len(s) |-> o2n[s[i]]], old2new |-> o2n]

-----------------------------------------------------------------------------
(* ExpectedValueProjector: cn2evs *)

Inf == <<1, 0>>

\* numpy's x / y on float64 scalars: a warning, not an exception, when y = 0
NpDiv(x, y) ==
    IF FIsZero(y) THEN (IF FIsZero(x) THEN NaN ELSE Inf) ELSE FDiv(x, y)

cn2evs_unchecked(cs, ps) ==
    LET n  == IF Len(cs) < Len(ps) THEN Len(cs) ELSE Len(ps)
        F  == FSum([i \in 1..n |-> FMul(FInt(cs[i][1] + cs[i][2]), ps[i])])
        Bs == FSum([i \in 1..n |-> FMul(FInt(cs[i][2]), ps[i])])
    IN  Ok(<<F, NpDiv(Bs, F)>>)

cn2evs_majorallele(cs, ps) ==
    IF Len(cs) # Len(ps) THEN Raise("AssertionError")
    ELSE LET F  == FSum([i \in 1..Len(cs) |-> FMul(FInt(cs[i][1] + cs[i][2]), ps[i])])
             As == FSum([i \in 1..Len(cs) |-> FMul(FInt(cs[i][1]), ps[i])])
         IN  Ok(<<F, NpDiv(As, F)>>)

cn2evs_tumor_only(cs, ps) ==
    IF Len(cs) # Len(ps) THEN Raise("AssertionError")
    ELSE LET F  == FSum([i \in 1..(Len(cs) - 1) |->
                            FMul(FInt(cs[i + 1][1] + cs[i + 1][2]), ps[i + 1])])
             Bs == FSum([i \in 1..(Len(cs) - 1) |-> FMul(FInt(cs[i + 1][2]), ps[i + 1])])
         IN  Ok(<<F, NpDiv(Bs, F)>>)

cn2evs(cs, ps) ==
    IF Len(cs) # Len(ps) THEN Raise("AssertionError")
    ELSE LET F  == FSum([i \in 1..Len(cs) |-> FMul(FInt(cs[i][1] + cs[i][2]), ps[i])])
             Bs == FSum([i \in 1..Len(cs) |-> FMul(FInt(cs[i][2]), ps[i])])
         IN  Ok(<<F, NpDiv(Bs, F)>>)

-----------------------------------------------------------------------------
(* The bin table: a pandas DataFrame as its column names in order and its   *)
(* rows, each a function from column name to value                          *)

\* f'cn_clone{i}' and 'u_clone{}'.format(i)
CnCloneCol(i) ==
    CASE i = 0 -> "cn_clone0" [] i = 1 -> "cn_clone1" [] i = 2 -> "cn_clone2"
      [] i = 3 -> "cn_clone3" [] i = 4 -> "cn_clone4"
      [] i = 5 -> "cn_clone5" [] i = 6 -> "cn_clone6" [] i = 7 -> "cn_clone7"

UCloneCol(i) ==
    CASE i = 0 -> "u_clone0" [] i = 1 -> "u_clone1" [] i = 2 -> "u_clone2"
      [] i = 3 -> "u_clone3" [] i = 4 -> "u_clone4"
      [] i = 5 -> "u_clone5" [] i = 6 -> "u_clone6" [] i = 7 -> "u_clone7"

\* bbc.iloc[r, k] with k counted from 0, r a row number of the model (from 1)
iloc(t, r, k) == t.rows[r][t.columns[k + 1]]

FLess(x, y) == x[1] * y[2] < y[1] * x[2]

\* int(x / 2): truncation towards zero
IntHalf(x) == IF x >= 0 THEN x \div 2 ELSE -((-x) \div 2)

\* the columns of a table of n tumor clones, in the order of the input file
BaseColumns ==
    <<"#CHR", "START", "END", "SAMPLE", "RD", "#SNPS", "COV", "ALPHA", "BETA",
      "BAF", "CLUSTER", "cn_normal", "u_normal">>

Columns(n) ==
    BaseColumns \o [k \in 1..(2 * n) |->
                       IF k % 2 = 1 THEN CnCloneCol((k + 1) \div 2)
                                    ELSE UCloneCol(k \div 2)]

\* one row: us = <<u_normal, u_clone1, ...>>, cs = <<cn_clone1, ...>>
MkRow(chr, start, end, sample, rd, baf, cnn, us, cs) ==
    [c \in Range(Columns(Len(cs))) |->
        CASE c = "#CHR" -> chr
          [] c = "START" -> start
          [] c = "END" -> end
          [] c = "SAMPLE" -> sample
          [] c = "RD" -> rd
          [] c = "BAF" -> baf
          [] c = "cn_normal" -> cnn
          [] c = "u_normal" -> us[1]
          [] c \in {"#SNPS", "COV", "ALPHA", "BETA", "CLUSTER"} -> 0
          [] OTHER ->
               LET i == CHOOSE i \in 1..Len(cs) : c \in {CnCloneCol(i), UCloneCol(i)}
               IN  IF c = CnCloneCol(i) THEN cs[i] ELSE us[i + 1]]

\* n_clones = max([i for i in range(5) if f'cn_clone{i}' in bbc.columns])
n_clones_by_name(t) ==
    LET have == {i \in 0..4 : CnCloneCol(i) \in Range(t.columns)}
    IN  CHOOSE i \in have : \A j \in have : j <= i

-----------------------------------------------------------------------------
(* GammaEstimator: compute_gamma *)

\* n_clones = int((len(bbc.columns) - 13) / 2)
n_clones_by_width(t) == IntHalf(Len(t.columns) - 13)

fractional_cn_excess(t, r) ==
    FSum([j \in 1..(n_clones_by_width(t) + 1) |->
             FMul(FInt(cn2total(iloc(t, r, 11 + 2 * (j - 1))).val - 2),
                  iloc(t, r, 12 + 2 * (j - 1)))])

\* bbc['fractional_cn'] of row r: sum over i in range(n_clones + 1) of
\* cn2total(bbc.iloc[:, 11 + 2*i]) * bbc.iloc[:, 12 + 2*i]
fractional_cn(t, r) ==
    FSum([j \in 1..(n_clones_by_width(t) + 1) |->
             FMul(FInt(cn2total(iloc(t, r, 11 + 2 * (j - 1))).val),
                  iloc(t, r, 12 + 2 * (j - 1)))])

\* np.argmax([bbc['u_clone{}'.format(i + 1)][0] for i in range(n_clones)]) + 1:
\* the first clone whose proportion in the first row is the largest
largest_clone(t) ==
    LET n == n_clones_by_width(t)
        u(i) == t.rows[1][UCloneCol(i)]
    IN  CHOOSE i \in 1..n :
            /\ \A j \in 1..n : ~FLess(u(i), u(j))
            /\ \A j \in 1..(i - 1) : FLess(u(j), u(i))

\* Counter(bbc['cn_clone{}'.format(largest_clone + 1)])[x]
dominant_cns(t, x) ==
    LET col == CnCloneCol(largest_clone(t))
    IN  Cardinality({r \in 1..Len(t.rows) : t.rows[r][col] = x})

balanced_options == {Tok(1, 1), Tok(2, 2), Tok(3, 3), Tok(4, 4)}

\* the values max(options, key = lambda x: dominant_cns[x]) can return: max
\* returns the first maximal element in the set's iteration order, which for
\* a set of str depends on the process's hash seed
max_by_count(options, t) ==
    LET count == [x \in options |-> dominant_cns(t, x)]
    IN  {x \in options : \A y \in options : count[y] <= count[x]}

balanced_idx_any_clone(t, lb) ==
    SelectSeq([r \in 1..Len(t.rows) |-> r],
              LAMBDA r : /\ \E j \in 1..n_clones_by_width(t) : t.rows[r][CnCloneCol(j)] = lb
                         /\ FPos(t.rows[r]["RD"]))

\* [i for i in range(len(bbc)) if all([bbc['cn_clone{}'.format(j + 1)][i] ==
\*  largest_balanced for j in range(n_clones)]) and bbc.loc[i, 'RD'] > 0]
balanced_idx(t, lb) ==
    LET n_clones == n_clones_by_width(t)
    IN  SelectSeq([r \in 1..Len(t.rows) |-> r],
                  LAMBDA r : /\ \A j \in 1..n_clones : t.rows[r][CnCloneCol(j)] = lb
                             /\ FPos(t.rows[r]["RD"]))

\* np.mean(x) of a Series given as a sequence: NaN when it is empty
np_mean_of_sum(xs) == IF xs = <<>> THEN NaN ELSE FSum(xs)

np_mean(xs) == IF xs = <<>> THEN NaN ELSE FDiv(FSum(xs), FInt(Len(xs)))

\* the value compute_gamma returns when largest_balanced takes the value p1
\* and, after the one retry of lines 378-383, p2
compute_gamma(t, p1, p2) ==
    LET first == balanced_idx(t, p1)
        idx   == IF Len(first) = 0 THEN balanced_idx(t, p2) ELSE first
    IN  Ok(<<n_clones_by_width(t),
             np_mean([k \in 1..Len(idx) |->
                         FDiv(fractional_cn(t, idx[k]), t.rows[idx[k]]["RD"])])>>)

-----------------------------------------------------------------------------
(* generate_1D2D_plots: the 'chr' step, chr_ends and the mapping *)

\* for i in range(22)
NumChrom == 22

ChrPrefix == <<"c", "h", "r">>

\* str(a).startswith('chr')
StartsWithChr(name) == Len(name) >= 3 /\ SubSeq(name, 1, 3) = ChrPrefix

\* bbc['#CHR'] = 'chr' + bbc['#CHR'].astype('str'), on a copy
AddChrPrefix(t) ==
    [t EXCEPT !.rows = [r \in 1..Len(t.rows) |->
                          [c \in DOMAIN t.rows[r] |->
                              IF c = "#CHR" THEN ChrPrefix \o t.rows[r][c]
                              ELSE t.rows[r][c]]]]

normalize_chr_any(t) ==
    IF "#CHR" \notin Range(t.columns) THEN Raise("ValueError")
    ELSE IF \E r \in 1..Len(t.rows) : StartsWithChr(t.rows[r]["#CHR"])
         THEN Ok(t)
         ELSE Ok(AddChrPrefix(t))

\* lines 61-75: the local bbc after the 'chr' step, or the ValueError raised
normalize_chr(t) ==
    IF "#CHR" \notin Range(t.columns) THEN Raise("ValueError")
    ELSE LET using_chr == {StartsWithChr(t.rows[r]["#CHR"]) : r \in 1..Len(t.rows)}
         IN  IF TRUE \in using_chr
             THEN IF FALSE \in using_chr THEN Raise("ValueError") ELSE Ok(t)
             ELSE Ok(AddChrPrefix(t))

\* chrlengths[name]: df.END.max() of the group of chromosome name
chrlengths(t, name) ==
    LET E == {t.rows[r]["END"] : r \in {x \in 1..Len(t.rows) : t.rows[x]["#CHR"] = name}}
    IN  CHOOSE e \in E : \A f \in E : f <= e

RECURSIVE ChrEndsUpTo(_, _)
\* chr_ends after k rounds of the loop of lines 80-81
ChrEndsUpTo(t, k) ==
    IF k = 0 THEN <<0>>
    ELSE LET prev == ChrEndsUpTo(t, k - 1)
         IN  Append(prev, prev[Len(prev)] + chrlengths(t, Chr(k)))

\* lines 78-81: chr_ends, or the KeyError of chrlengths[f'chr{i + 1}']
compute_chr_ends(t) ==
    IF \E i \in 1..NumChrom : \A r \in 1..Len(t.rows) : t.rows[r]["#CHR"] # Chr(i)
    THEN Raise("KeyError")
    ELSE Ok(ChrEndsUpTo(t, NumChrom))

\* the key of a bin in a groupby over [cn_clone1 .. cn_clone{n}]: the bare
\* state string for one column, the tuple of state strings for several
KeyOf(row, n) == IF n = 1 THEN row["cn_clone1"] ELSE [j \in 1..n |-> row[CnCloneCol(j)]]

RECURSIVE TupleCmp(_, _)
TupleCmp(a, b) ==
    IF a = <<>> /\ b = <<>> THEN 0
    ELSE IF a = <<>> THEN -1
    ELSE IF b = <<>> THEN 1
    ELSE IF StrCmp(Head(a), Head(b)) # 0 THEN StrCmp(Head(a), Head(b))
    ELSE TupleCmp(Tail(a), Tail(b))

KeyCmp(a, b, n) == IF n = 1 THEN StrCmp(a, b) ELSE TupleCmp(a, b)

RECURSIVE SortKeys(_, _)
SortKeys(K, n) ==
    IF K = {} THEN <<>>
    ELSE LET m == CHOOSE k \in K : \A o \in K : KeyCmp(k, o, n) <= 0
         IN  <<m>> \o SortKeys(K \ {m}, n)

\* [k for k, _ in bbc.groupby([f'cn_clone{i + 1}' for i in range(n_clones)])]:
\* each distinct key once, in sorted order
group_keys(t, n) == SortKeys({KeyOf(t.rows[r], n) : r \in 1..Len(t.rows)}, n)

\* lines 83-84: _, mapping = reindex(group keys)
build_mapping(t) == reindex(group_keys(t, n_clones_by_name(t))).old2new

-----------------------------------------------------------------------------
(* plot_clusters and plot_genome: from the rank of a combination to what is  *)
(* handed to cmap                                                            *)

\* cmap(x): an int is an index of the palette's entries, a float a position
\* on the colormap
PaletteIndex(i) == [kind |-> "index", at |-> i]

PalettePosition(x) == [kind |-> "position", at |-> x]

plot_clusters_colors_below20(m) ==
    LET n_states == Cardinality(DOMAIN m)
    IN  IF n_states < 20
        THEN [k \in DOMAIN m |-> PaletteIndex(m[k] % 20)]
        ELSE [k \in DOMAIN m |-> PalettePosition(Frac(m[k] % 40, n_states))]

\* plot_clusters, lines 600-616: the local mapping after the colour step
plot_clusters_colors(m) ==
    LET n_states == Cardinality(DOMAIN m)
    IN  IF n_states <= 20
        THEN [k \in DOMAIN m |-> PaletteIndex(m[k] % 20)]
        ELSE [k \in DOMAIN m |-> PalettePosition(Frac(m[k] % 40, n_states))]

plot_genome_colors_over20(m) ==
    LET n_states == Cardinality(DOMAIN m)
    IN  IF n_states <= 20
        THEN [k \in DOMAIN m |-> PaletteIndex(m[k] % 20)]
        ELSE [k \in DOMAIN m |-> PalettePosition(Frac(m[k] % 40, 20))]

\* plot_genome, lines 423-442: the local mapping after the colour step
plot_genome_colors(m) ==
    LET n_states == Cardinality(DOMAIN m)
    IN  IF n_states <= 20
        THEN [k \in DOMAIN m |-> PaletteIndex(m[k] % 20)]
        ELSE [k \in DOMAIN m |-> PalettePosition(Frac(m[k] % 40, n_states))]

-----------------------------------------------------------------------------
(* The random flips and the pieces the two plot functions share *)

\* np.random.seed(0) followed by np.random.randint(2, size = n): the low bit
\* of each of the first n outputs of the Mersenne Twister seeded with 0
RandBits ==
    <<0, 1, 1, 0, 1, 1, 1, 1, 1, 1, 1, 0, 0, 1, 0, 0, 0, 0, 0, 1,
      0, 1, 1, 0, 0, 1, 1, 1, 1, 0, 1, 0, 1, 0, 1, 1, 0, 1, 1, 0>>

randint2(n) == SubSeq(RandBits, 1, n)

FSub(x, y) == FAdd(x, <<-y[1], y[2]>>)

\* numpy's x * y on float64: NaN when either is NaN
NpMul(x, y) == IF x = NaN \/ y = NaN THEN NaN ELSE FMul(x, y)

\* the value of np.choose(flips, [col, 1 - col]) at one row
choose_flip(flip, b) == IF flip = 1 THEN FSub(FInt(1), b) ELSE b

mirror_rows_rd(t, idx, flips) ==
    [t EXCEPT !.rows = [r \in 1..Len(t.rows) |->
        IF \E k \in 1..Len(idx) : idx[k] = r
        THEN LET k == CHOOSE k \in 1..Len(idx) : idx[k] = r
             IN  [c \in DOMAIN t.rows[r] |->
                     IF c = "RD" THEN choose_flip(flips[k], t.rows[r][c])
                     ELSE t.rows[r][c]]
        ELSE t.rows[r]]]

\* bbc.loc[idx, 'BAF'] = np.choose(flips, [bbc.loc[idx, 'BAF'],
\* 1 - bbc.loc[idx, 'BAF']]) on a copy: the k-th row of idx is reflected when
\* flips[k] = 1
mirror_rows(t, idx, flips) ==
    [t EXCEPT !.rows = [r \in 1..Len(t.rows) |->
        IF \E k \in 1..Len(idx) : idx[k] = r
        THEN LET k == CHOOSE k \in 1..Len(idx) : idx[k] = r
             IN  [c \in DOMAIN t.rows[r] |->
                     IF c = "BAF" THEN choose_flip(flips[k], t.rows[r][c])
                     ELSE t.rows[r][c]]
        ELSE t.rows[r]]]

\* the row numbers of t that satisfy Test, in order
RowsWhere(t, Test(_)) == SelectSeq([r \in 1..Len(t.rows) |-> r], Test)

\* lines 113-117: a bin is balanced when, in every tumor clone, the two parts
\* of the state string are equal
balanced_indices(t, n) ==
    RowsWhere(t, LAMBDA r : \A j \in 1..n :
                  LET pt == Split(t.rows[r][CnCloneCol(j)], "|")
                  IN  Len(pt) >= 2 /\ pt[1] = pt[2])

\* lines 110-124: the bbc handed on to the plot functions
resample_step(t, flag) ==
    LET n == n_clones_by_name(t)
    IN  IF flag /\ n > 1
        THEN LET idx == balanced_indices(t, n)
             IN  mirror_rows(t, idx, randint2(Len(idx)))
        ELSE t

\* big_bbc.SAMPLE.unique(): the samples in order of first appearance
samples_of(t) ==
    LET S == {t.rows[r]["SAMPLE"] : r \in 1..Len(t.rows)}
        first(x) == CHOOSE r \in 1..Len(t.rows) :
                        t.rows[r]["SAMPLE"] = x /\ \A q \in 1..(r - 1) : t.rows[q]["SAMPLE"] # x
    IN  [i \in 1..Cardinality(S) |->
            CHOOSE x \in S : Cardinality({y \in S : first(y) < first(x)}) = i - 1]

\* the rows of bbc[bbc.SAMPLE == sample], by their number in bbc
rows_of_sample(t, sample) == RowsWhere(t, LAMBDA r : t.rows[r]["SAMPLE"] = sample)

\* bbc[...].reset_index(drop = True) for the rows idx
sub_table(t, idx) == [columns |-> t.columns, rows |-> [k \in 1..Len(idx) |-> t.rows[idx[k]]]]

\* round(6) of a float
Round6(x) ==
    IF x = NaN THEN NaN
    ELSE LET num  == x[1] * 1000000
             q    == num \div x[2]
             rem2 == 2 * (num % x[2])
             up   == rem2 > x[2] \/ (rem2 = x[2] /\ q % 2 = 1)
         IN  Frac(IF up THEN q + 1 ELSE q, 1000000)

\* props = np.array([bbc_.iloc[0, 2 * i + 12] for i in range(n_clones + 1)]).round(6)
props_of(t, n) == [i \in 1..(n + 1) |-> Round6(iloc(t, 1, 2 * (i - 1) + 12))]

\* max(options, key = ...): the first maximal element in the iteration order
\* ord of the set
first_max(options, t, ord) ==
    LET M == max_by_count(options, t)
    IN  ord[CHOOSE i \in 1..Len(ord) : ord[i] \in M /\ \A j \in 1..(i - 1) : ord[j] \notin M]

\* compute_gamma(bbc_) in a process whose sets of these strings iterate as ord
compute_gamma_in(t, ord) ==
    LET p1 == first_max(balanced_options, t, ord)
    IN  IF Len(balanced_idx(t, p1)) = 0
        THEN compute_gamma(t, p1, first_max(balanced_options \ {p1}, t, ord))
        ELSE compute_gamma(t, p1, p1)

\* mapping[k]
Lookup(m, k) == IF k \in DOMAIN m THEN Ok(m[k]) ELSE Raise("KeyError")

bin_key_tuple(row, n) == [j \in 1..n |-> row[CnCloneCol(j)]]

\* lines 630-633 and 541-544: r of bbc.cn_clone1 when n_clones == 1, tuple(r)
\* of the cn_clone columns otherwise
bin_key(row, n) == IF n = 1 THEN row["cn_clone1"] ELSE [j \in 1..n |-> row[CnCloneCol(j)]]

\* [r[f'cn_clone{i + 1}'] for i in range(n_clones)]
clone_states(row, n) == [j \in 1..n |-> row[CnCloneCol(j)]]

\* [(1,1)] + [str2state(a) for a in the states of a key or of a bin]
state_of(cs) == <<<<1, 1>>>> \o [j \in 1..Len(cs) |-> str2state(cs[j]).val]

-----------------------------------------------------------------------------
(* plot_clusters: what it draws for each sample *)

\* lines 619-654 for one sample of bbc: the scattered bins and the centroids
clusters_of_sample(t, colors, sample, ord) ==
    LET idx    == rows_of_sample(t, sample)
        bbc_   == sub_table(t, idx)
        n      == n_clones_by_name(bbc_)
        props_ == props_of(bbc_, n)
        g      == compute_gamma_in(bbc_, ord)
        keys   == group_keys(bbc_, n)
        ev(k)  == cn2evs(state_of(IF n = 1 THEN <<k>> ELSE k), props_).val
    IN  IF g.val[1] # n THEN Raise("AssertionError")
        ELSE IF \E k \in 1..Len(idx) : Raised(Lookup(colors, bin_key(bbc_.rows[k], n)))
             THEN Raise("KeyError")
        ELSE IF \E i \in 1..Len(keys) : Raised(Lookup(colors, keys[i]))
             THEN Raise("KeyError")
        ELSE Ok([sample |-> sample,
                 n_clones |-> n,
                 props |-> props_,
                 gamma |-> g.val[2],
                 points |-> [k \in 1..Len(idx) |->
                               [row |-> idx[k],
                                key |-> bin_key(bbc_.rows[k], n),
                                x |-> bbc_.rows[k]["BAF"],
                                y |-> NpMul(bbc_.rows[k]["RD"], g.val[2]),
                                c |-> colors[bin_key(bbc_.rows[k], n)]]],
                 centroids |-> [i \in 1..Len(keys) |->
                                  [key |-> keys[i],
                                   ex |-> ev(keys[i])[2],
                                   ey |-> ev(keys[i])[1],
                                   c |-> colors[keys[i]]]]])

\* the first exception among the outcomes per, or all their values
AllOrFirstError(per, rest) ==
    IF \E i \in 1..Len(per) : Raised(per[i])
    THEN per[CHOOSE i \in 1..Len(per) : Raised(per[i]) /\ \A j \in 1..(i - 1) : ~Raised(per[j])]
    ELSE Ok([rest EXCEPT !.samples = [i \in 1..Len(per) |-> per[i].val]])

\* plot_clusters(bbc, mapping), lines 587-705
plot_clusters(t, m, ord) ==
    LET colors == plot_clusters_colors(m)
        ss     == samples_of(t)
    IN  AllOrFirstError([i \in 1..Len(ss) |-> clusters_of_sample(t, colors, ss[i], ord)],
                        [colors |-> colors, samples |-> <<>>])

-----------------------------------------------------------------------------
(* plot_genome: what it draws for each sample *)

\* int(chromosome[3:])
chr_number(name) == IntParse(SubSeq(name, 4, Len(name)))

\* lines 445-544 for one sample of the mirrored big_bbc: the bins drawn on the
\* axis, chromosome by chromosome of the list chromosomes
genome_of_sample(big, colors, ends, sample, chromosomes, ord) ==
    LET idx    == rows_of_sample(big, sample)
        bbc_   == sub_table(big, idx)
        n      == n_clones_by_name(bbc_)
        props_ == props_of(bbc_, n)
        g      == compute_gamma_in(bbc_, ord)
        chrkey == IF "CHR" \in Range(bbc_.columns) THEN "CHR" ELSE "#CHR"
        drawn  == SelectSeq([k \in 1..Len(idx) |-> k],
                            LAMBDA k : /\ bbc_.rows[k][chrkey] \in chromosomes
                                       /\ bbc_.rows[k]["#CHR"] = bbc_.rows[k][chrkey])
        ev(k)  == cn2evs(state_of(clone_states(bbc_.rows[k], n)), props_).val
        start(k) == ends[chr_number(bbc_.rows[k][chrkey])]
    IN  IF g.val[1] # n THEN Raise("AssertionError")
        ELSE IF \E c \in chromosomes : chr_number(c) \notin 1..Len(ends)
             THEN Raise("IndexError")
        ELSE IF \E i \in 1..Len(drawn) :
                   Raised(Lookup(colors, bin_key(bbc_.rows[drawn[i]], n)))
             THEN Raise("KeyError")
        ELSE Ok([sample |-> sample,
                 n_clones |-> n,
                 props |-> props_,
                 gamma |-> g.val[2],
                 segs |-> [i \in 1..Len(drawn) |->
                             LET k == drawn[i]
                             IN  [row |-> idx[k],
                                  key |-> bin_key(bbc_.rows[k], n),
                                  x0 |-> bbc_.rows[k]["START"] + start(k),
                                  x1 |-> bbc_.rows[k]["END"] + start(k),
                                  y_fcn |-> ev(k)[1],
                                  y_baf |-> ev(k)[2],
                                  mid |-> FAdd(Frac(bbc_.rows[k]["START"] + bbc_.rows[k]["END"], 2),
                                               FInt(start(k))),
                                  y |-> NpMul(bbc_.rows[k]["RD"], g.val[2]),
                                  b |-> bbc_.rows[k]["BAF"],
                                  c |-> colors[bin_key(bbc_.rows[k], n)]]]])

\* lines 404-405: one flip per row of the whole table
genome_flips(t) == randint2(Len(t.rows))

\* plot_genome(big_bbc, mapping, chr_ends, ...), lines 395-585, chromosomes
\* left at None: the list is set from the first sample and kept for the others
plot_genome(t, m, ends, ord) ==
    LET flips  == genome_flips(t)
        big    == mirror_rows(t, [r \in 1..Len(t.rows) |-> r], flips)
        colors == plot_genome_colors(m)
        ss     == samples_of(big)
        chromosomes == {big.rows[r]["#CHR"] : r \in Range(rows_of_sample(big, ss[1]))}
    IN  AllOrFirstError([i \in 1..Len(ss) |->
                            genome_of_sample(big, colors, ends, ss[i], chromosomes, ord)],
                        [flips |-> flips, big |-> big, colors |-> colors,
                         chromosomes |-> chromosomes, samples |-> <<>>])

-----------------------------------------------------------------------------
(* Values the runs draw their inputs from *)

\* cn_clone tokens of the tables and labels
StateTokens == {Tok(1, 1), Tok(2, 2), Tok(3, 3), Tok(2, 1)}

LabelSet == {Tok(1, 1), Tok(2, 2), Tok(2, 1)}

TokAlphabet == {"1", "2", "|", "x"}

TumorStates == {<<0, 0>>, <<1, 1>>, <<2, 0>>, <<2, 2>>}

PropValues == {FInt(0), Frac(1, 4), Frac(1, 2), FInt(1)}

NoTable == [columns |-> <<>>, rows |-> <<>>]

RDValues == {FInt(0), FInt(1), FInt(2)}

\* RD values of the two-clone tables
RDValues2 == {FInt(0), FInt(1)}

\* cn_clone tokens of the two-clone tables
StateTokens2 == {Tok(1, 1), Tok(2, 2), Tok(2, 1)}

\* cn_normal and <<u_normal, u_clone1, ...>> of a sample (proportions sum to 1)
Profiles(n) ==
    IF n = 1
    THEN {[cnn |-> Tok(1, 1), us |-> <<Frac(1, 2), Frac(1, 2)>>],
          [cnn |-> Tok(2, 2), us |-> <<Frac(1, 4), Frac(3, 4)>>]}
    ELSE {[cnn |-> Tok(1, 1), us |-> <<Frac(1, 2), Frac(1, 4), Frac(1, 4)>>],
          [cnn |-> Tok(1, 1), us |-> <<Frac(1, 4), Frac(1, 4), Frac(1, 2)>>],
          [cnn |-> Tok(2, 2), us |-> <<FInt(0), Frac(1, 2), Frac(1, 2)>>]}

\* the bins of one sample: bin r has RD cells[r][1] and tumor states cells[r][2]
SampleTable(n, cnn, us, cells) ==
    [columns |-> Columns(n),
     rows |-> [r \in 1..Len(cells) |->
                  MkRow(Chr(1), r - 1, r, "s1", cells[r][1], Frac(1, 2), cnn, us,
                        cells[r][2])]]

\* the name of chromosome c with or without the prefix
ChrName(style, c) == IF style = "chr" THEN Chr(c) ELSE IntToStr(c)

PlotProps(n) == IF n = 1 THEN <<Frac(1, 2), Frac(1, 2)>>
                ELSE <<Frac(1, 2), Frac(1, 4), Frac(1, 4)>>

PlotRow(chrname, start, end, cs) ==
    MkRow(chrname, start, end, "s1", FInt(1), Frac(1, 4), Tok(1, 1),
          PlotProps(Len(cs)), cs)

\* t with column old renamed to new
RenameCol(t, old, new) ==
    [columns |-> [k \in 1..Len(t.columns) |->
                     IF t.columns[k] = old THEN new ELSE t.columns[k]],
     rows |-> [r \in 1..Len(t.rows) |->
                  [c \in (DOMAIN t.rows[r] \ {old}) \cup {new} |->
                      IF c = new THEN t.rows[r][old] ELSE t.rows[r][c]]]]

\* how the chromosomes of a table are named and which of them it covers
Shapes ==
    {[style |-> "chr", upto |-> NumChrom, chrcol |-> "#CHR"],
     [style |-> "plain", upto |-> NumChrom, chrcol |-> "#CHR"],
     [style |-> "chr", upto |-> NumChrom - 1, chrcol |-> "#CHR"],
     [style |-> "chr", upto |-> NumChrom, chrcol |-> "CHR"]}

\* one bin of states cs on each of the chromosomes 1..upto, then further bins
\* on chromosome 1, bin k named in style extra[k][1] with states extra[k][2]
PlotTable(shape, cs, extra) ==
    RenameCol(
        [columns |-> Columns(Len(cs)),
         rows |-> [c \in 1..shape.upto |-> PlotRow(ChrName(shape.style, c), 0, 2, cs)]
                  \o [k \in 1..Len(extra) |->
                         PlotRow(ChrName(extra[k][1], 1), 1 + k, 2 + k, extra[k][2])]],
        "#CHR", shape.chrcol)

PlotTokens(n) == IF n = 1 THEN StateTokens ELSE {Tok(1, 1), Tok(2, 2)}

\* iteration orders of the set {'1|1', '2|2', '3|3', '4|4'} in a process
HashOrders ==
    {<<Tok(1, 1), Tok(2, 2), Tok(3, 3), Tok(4, 4)>>,
     <<Tok(4, 4), Tok(3, 3), Tok(2, 2), Tok(1, 1)>>}

\* <<u_normal, u_clone1, ...>> of each sample of a table of several samples
DrawProps(sample, n) ==
    IF sample = "s1" THEN PlotProps(n)
    ELSE IF n = 1 THEN <<Frac(1, 4), Frac(3, 4)>>
    ELSE <<Frac(1, 4), Frac(1, 4), Frac(1, 2)>>

DrawTokens(n) == IF n = 1 THEN {Tok(1, 1), Tok(2, 2), Tok(2, 1)} ELSE {Tok(1, 1), Tok(2, 2)}

BackboneTokens(n) == IF n = 1 THEN {Tok(1, 1), Tok(2, 1)} ELSE {Tok(1, 1)}

\* sample s1 with one bin of states tok on each of chr1..chr22, and further
\* bins on chr1, bin k of sample extra[k][1] with states extra[k][2], placed
\* before (front) or after the bins of s1
DrawTable(n, tok, extra, front) ==
    LET backbone == [c \in 1..NumChrom |->
                        MkRow(Chr(c), 0, 2, "s1", FInt(1), Frac(1, 4), Tok(1, 1),
                              DrawProps("s1", n), [j \in 1..n |-> tok])]
        more     == [k \in 1..Len(extra) |->
                        MkRow(Chr(1), 1 + k, 2 + k, extra[k][1], FInt(2), Frac(1, 3),
                              Tok(1, 1), DrawProps(extra[k][1], n), extra[k][2])]
    IN  [columns |-> Columns(n),
         rows |-> IF front THEN more \o backbone ELSE backbone \o more]

\* <<u_normal, u_clone1, ...>> of a sample of n tumor clones: 1/2, 1/4, ...,
\* the last one twice, so that they sum to 1 and have at most six decimals
WideProps(n) ==
    [i \in 1..(n + 1) |-> IF i <= n THEN Frac(1, 2^i) ELSE Frac(1, 2^n)]

\* cn_normal and the proportions of the sample of a one-sample table: the
\* normal clone at '1|1' or at '2|2'
WideProfiles(n) ==
    {[cnn |-> Tok(1, 1), us |-> WideProps(n)],
     [cnn |-> Tok(2, 2), us |-> WideProps(n)]}

\* sample s1 of n tumor clones with one bin on each of chr1..chr22, every
\* clone in state tok, and one more bin on chr1 with every clone in state last
WideTable(n, prof, tok, last) ==
    [columns |-> Columns(n),
     rows |-> [c \in 1..NumChrom |->
                  MkRow(Chr(c), 0, 2, "s1", FInt(1), Frac(1, 4), prof.cnn, prof.us,
                        [j \in 1..n |-> tok])]
              \o <<MkRow(Chr(1), 2, 3, "s1", FInt(2), Frac(1, 3), prof.cnn, prof.us,
                         [j \in 1..n |-> last])>>]

-----------------------------------------------------------------------------
(* What the variables a run does not use hold *)

IdleReindex == labels = <<>> /\ calls = <<>>
IdleCodec == token = <<>> /\ parsed = NoCall
IdleEvs == cns = <<>> /\ props = <<>> /\ evs = NoCall
IdleGamma == picks = <<>> /\ gamma = NoCall
IdlePlot ==
    /\ work = NoTable /\ chr_ends = <<>> /\ mapping = <<>> /\ err = "none"
    /\ resample = FALSE /\ passed = NoTable /\ order = <<>>
    /\ clusters = NoCall /\ genome = NoCall

-----------------------------------------------------------------------------
(* Runs of reindex *)

InitReindex ==
    /\ pc = "reindex"
    /\ labels \in SeqsUpTo(LabelSet, MaxLabels)
    /\ calls = <<>>
    /\ bbc = NoTable
    /\ IdleCodec /\ IdleEvs /\ IdleGamma /\ IdlePlot

\* one invocation of reindex(labels); the caller may invoke it again
CallReindex ==
    /\ pc = "reindex"
    /\ Len(calls) < 2
    /\ calls' = Append(calls, reindex(labels))
    /\ UNCHANGED <<pc, labels, codecVars, evsVars, bbc, gammaVars, plotVars>>

NextReindex == CallReindex

SpecReindex == InitReindex /\ [][NextReindex]_vars

-----------------------------------------------------------------------------
(* Runs of the state codec *)

InitParse ==
    /\ pc = "parse"
    /\ token \in SeqsUpTo(TokAlphabet, MaxTokLen)
    /\ parsed = NoCall
    /\ bbc = NoTable
    /\ IdleReindex /\ IdleEvs /\ IdleGamma /\ IdlePlot

ParseFrame == UNCHANGED <<token, reindexVars, evsVars, bbc, gammaVars, plotVars>>

CallStr2state ==
    /\ pc = "parse"
    /\ parsed' = str2state(token)
    /\ pc' = "str2state"
    /\ ParseFrame

CallStr2cn ==
    /\ pc = "parse"
    /\ parsed' = str2cn(token)
    /\ pc' = "str2cn"
    /\ ParseFrame

CallCn2total ==
    /\ pc = "parse"
    /\ parsed' = cn2total(token)
    /\ pc' = "cn2total"
    /\ ParseFrame

NextParse == CallStr2state \/ CallStr2cn \/ CallCn2total

SpecParse == InitParse /\ [][NextParse]_vars

-----------------------------------------------------------------------------
(* Runs of cn2evs *)

InitEvs ==
    /\ pc = "cn2evs"
    /\ \E tumor \in SeqsUpTo(TumorStates, MaxClonesEvs) : cns = <<<<1, 1>>>> \o tumor
    /\ props \in NonEmptySeqsUpTo(PropValues, MaxClonesEvs + 1)
    /\ evs = NoCall
    /\ bbc = NoTable
    /\ IdleReindex /\ IdleCodec /\ IdleGamma /\ IdlePlot

CallCn2evs ==
    /\ pc = "cn2evs"
    /\ evs' = cn2evs(cns, props)
    /\ pc' = "cn2evs_done"
    /\ UNCHANGED <<cns, props, reindexVars, codecVars, bbc, gammaVars, plotVars>>

NextEvs == CallCn2evs

SpecEvs == InitEvs /\ [][NextEvs]_vars

-----------------------------------------------------------------------------
(* Runs of compute_gamma on the bins of one sample *)

InitGamma ==
    /\ pc = "compute_gamma"
    /\ \E n \in {1, 2} :
       \E prof \in Profiles(n) :
       \E k \in 1..(IF n = 1 THEN MaxBins ELSE MaxBins2) :
       \E cells \in [1..k -> IF n = 1 THEN RDValues \X [1..n -> StateTokens]
                                       ELSE RDValues2 \X [1..n -> StateTokens2]] :
          bbc = SampleTable(n, prof.cnn, prof.us, cells)
    /\ picks = <<>> /\ gamma = NoCall
    /\ IdleReindex /\ IdleCodec /\ IdleEvs /\ IdlePlot

\* one call compute_gamma(bbc), with the choices max() makes among ties
CallComputeGamma ==
    /\ pc = "compute_gamma"
    /\ \E p1 \in max_by_count(balanced_options, bbc) :
          IF Len(balanced_idx(bbc, p1)) = 0
          THEN \E p2 \in max_by_count(balanced_options \ {p1}, bbc) :
                  /\ picks' = <<p1, p2>>
                  /\ gamma' = compute_gamma(bbc, p1, p2)
          ELSE /\ picks' = <<p1>>
               /\ gamma' = compute_gamma(bbc, p1, p1)
    /\ pc' = "gamma_done"
    /\ UNCHANGED <<reindexVars, codecVars, evsVars, bbc, plotVars>>

NextGamma == CallComputeGamma

SpecGamma == InitGamma /\ [][NextGamma]_vars

-----------------------------------------------------------------------------
(* Runs of generate_1D2D_plots *)

InitPlots ==
    /\ pc = "generate"
    /\ \E n \in {1, 2} :
       \E shape \in Shapes :
       \E tok \in PlotTokens(n) :
       \E extra \in SeqsUpTo({"chr", "plain"} \X [1..n -> PlotTokens(n)], MaxExtra) :
          bbc = PlotTable(shape, [j \in 1..n |-> tok], extra)
    /\ IdlePlot
    /\ IdleReindex /\ IdleCodec /\ IdleEvs /\ IdleGamma

PlotFrame == UNCHANGED <<reindexVars, codecVars, evsVars, bbc, gammaVars>>

\* lines 61-75
NormalizeChr ==
    /\ pc = "generate"
    /\ LET r == normalize_chr(bbc)
       IN  IF Raised(r)
           THEN pc' = "failed" /\ err' = r.err /\ UNCHANGED work
           ELSE pc' = "chr_done" /\ work' = r.val /\ UNCHANGED err
    /\ UNCHANGED <<chr_ends, mapping, resample, passed, order, clusters, genome>>
    /\ PlotFrame

\* lines 77-81
ComputeChrEnds ==
    /\ pc = "chr_done"
    /\ LET r == compute_chr_ends(work)
       IN  IF Raised(r)
           THEN pc' = "failed" /\ err' = r.err /\ UNCHANGED chr_ends
           ELSE pc' = "ends_done" /\ chr_ends' = r.val /\ UNCHANGED err
    /\ UNCHANGED <<work, mapping, resample, passed, order, clusters, genome>>
    /\ PlotFrame

\* lines 83-84
BuildMapping ==
    /\ pc = "ends_done"
    /\ mapping' = build_mapping(work)
    /\ pc' = "mapped"
    /\ UNCHANGED <<work, chr_ends, err, resample, passed, order, clusters, genome>>
    /\ PlotFrame

\* lines 110-124, for either value of the argument resample_balanced
Resample ==
    /\ pc = "mapped"
    /\ \E flag \in BOOLEAN :
          /\ resample' = flag
          /\ passed' = resample_step(work, flag)
    /\ pc' = "resampled"
    /\ UNCHANGED <<work, chr_ends, mapping, err, order, clusters, genome>>
    /\ PlotFrame

\* lines 126-132: plot_clusters(bbc, mapping, ...)
PlotClusters ==
    /\ pc = "resampled"
    /\ \E ord \in HashOrders :
          LET out == plot_clusters(passed, mapping, ord)
          IN  /\ order' = ord
              /\ clusters' = out
              /\ IF Raised(out)
                 THEN pc' = "failed" /\ err' = out.err
                 ELSE pc' = "clusters_done" /\ UNCHANGED err
    /\ UNCHANGED <<work, chr_ends, mapping, resample, passed, genome>>
    /\ PlotFrame

\* lines 134-141: plot_genome(bbc, mapping, chr_ends, chr2centro, ...)
PlotGenome ==
    /\ pc = "clusters_done"
    /\ LET out == plot_genome(passed, mapping, chr_ends, order)
       IN  /\ genome' = out
           /\ IF Raised(out)
              THEN pc' = "failed" /\ err' = out.err
              ELSE pc' = "done" /\ UNCHANGED err
    /\ UNCHANGED <<work, chr_ends, mapping, resample, passed, order, clusters>>
    /\ PlotFrame

NextPlots == NormalizeChr \/ ComputeChrEnds \/ BuildMapping

\* the steps of lines 61-84 on well-formed and malformed tables
SpecPlots == InitPlots /\ [][NextPlots]_vars

\* generate_1D2D_plots on tables of one or two samples that cover chr1..chr22
InitDraw ==
    /\ pc = "generate"
    /\ \E n \in {1, 2} :
       \E tok \in BackboneTokens(n) :
       \E extra \in SeqsUpTo({"s1", "s2"} \X [1..n -> DrawTokens(n)], MaxDrawExtra) :
       \E front \in BOOLEAN :
          bbc = DrawTable(n, tok, extra, front)
    /\ IdlePlot
    /\ IdleReindex /\ IdleCodec /\ IdleEvs /\ IdleGamma

NextDraw ==
    \/ NormalizeChr \/ ComputeChrEnds \/ BuildMapping
    \/ Resample \/ PlotClusters \/ PlotGenome

\* the whole of generate_1D2D_plots
SpecDraw == InitDraw /\ [][NextDraw]_vars

\* generate_1D2D_plots on tables of one sample and 1..MaxClonesWide tumor
\* clones, in the layout of 13 + 2n columns
InitWide ==
    /\ pc = "generate"
    /\ \E n \in 1..MaxClonesWide :
       \E prof \in WideProfiles(n) :
       \E tok \in {Tok(1, 1), Tok(2, 1)} :
       \E last \in {Tok(1, 1), Tok(2, 2)} :
          bbc = WideTable(n, prof, tok, last)
    /\ IdlePlot
    /\ IdleReindex /\ IdleCodec /\ IdleEvs /\ IdleGamma

SpecWide == InitWide /\ [][NextDraw]_vars

-----------------------------------------------------------------------------
(* Runs of the colour step of plot_clusters and plot_genome on the mapping   *)
(* of N distinct combinations                                                *)

\* the k-th of the state strings '0|0', '0|1', ...
ColourKey(k) == Tok((k - 1) \div 7, (k - 1) % 7)

\* a mapping as reindex returns it for n distinct keys: a bijection onto 1..n,
\* the keys ranked in their order from the shift-th on
ColourMapping(n, shift) ==
    [key \in {ColourKey(i) : i \in 1..n} |->
        (((CHOOSE i \in 1..n : ColourKey(i) = key) - 1 + shift) % n) + 1]

InitColours ==
    /\ pc = "colours"
    /\ \E n \in 1..MaxStates : \E shift \in 0..2 :
          mapping = ColourMapping(n, shift)
    /\ work = NoTable /\ chr_ends = <<>> /\ err = "none"
    /\ resample = FALSE /\ passed = NoTable /\ order = <<>>
    /\ clusters = NoCall /\ genome = NoCall
    /\ bbc = NoTable
    /\ IdleReindex /\ IdleCodec /\ IdleEvs /\ IdleGamma

ColoursFrame ==
    UNCHANGED <<pc, reindexVars, codecVars, evsVars, bbc, gammaVars,
                work, chr_ends, mapping, err, resample, passed, order>>

\* plot_clusters, lines 600-616
PlotClustersColours ==
    /\ pc = "colours"
    /\ clusters = NoCall
    /\ clusters' = Ok(plot_clusters_colors(mapping))
    /\ UNCHANGED genome
    /\ ColoursFrame

\* plot_genome, lines 423-442
PlotGenomeColours ==
    /\ pc = "colours"
    /\ genome = NoCall
    /\ genome' = Ok(plot_genome_colors(mapping))
    /\ UNCHANGED clusters
    /\ ColoursFrame

NextColours == PlotClustersColours \/ PlotGenomeColours

SpecColours == InitColours /\ [][NextColours]_vars

-----------------------------------------------------------------------------
(* Claims about reindex *)

FirstOcc(s, x) == CHOOSE i \in 1..Len(s) : s[i] = x /\ \A j \in 1..(i - 1) : s[j] # x

\* C1: every invocation of reindex returns a bijection from the distinct labels
\* onto 1..N in which a label with strictly more occurrences has a strictly
\* smaller rank and labels with equal counts are ranked by first occurrence;
\* the returned list is the mapping applied position by position, and every
\* invocation on the same sequence returns the same result.
C1_ReindexRanks ==
    \A c \in 1..Len(calls) :
        LET m == calls[c].old2new
            K == Range(labels)
        IN  /\ DOMAIN m = K
            /\ {m[k] : k \in K} = 1..Cardinality(K)
            /\ \A k1, k2 \in K : k1 # k2 => m[k1] # m[k2]
            /\ \A k1, k2 \in K :
                   Count(labels, k1) > Count(labels, k2) => m[k1] < m[k2]
            /\ \A k1, k2 \in K :
                   (Count(labels, k1) = Count(labels, k2)
                    /\ FirstOcc(labels, k1) < FirstOcc(labels, k2)) => m[k1] < m[k2]
            /\ calls[c].list = [i \in 1..Len(labels) |-> m[labels[i]]]
            /\ calls[c] = calls[1]

\* reindex was invoked twice on labels where the most frequent label is not the
\* first one met and two other labels tie
C1_Witness ==
    /\ Len(calls) = 2
    /\ \E k1, k2, k3 \in Range(labels) :
          /\ Count(labels, k1) > Count(labels, k2)
          /\ Count(labels, k2) = Count(labels, k3)
          /\ k2 # k3
          /\ FirstOcc(labels, k1) > FirstOcc(labels, k2)

-----------------------------------------------------------------------------
(* Claims about cn2evs *)

ExpectedF == FSum([i \in 1..Len(cns) |-> FMul(FInt(cns[i][1] + cns[i][2]), props[i])])

ExpectedBsum == FSum([i \in 1..Len(cns) |-> FMul(FInt(cns[i][2]), props[i])])

\* C6: for states [(1,1)] + tumor states and proportions of the same length,
\* cn2evs returns (F, M) with F = sum of (A_i + B_i) * proportion_i and
\* M = (sum of B_i * proportion_i) / F (where F is not 0); when the two
\* sequences differ in length the call raises instead of returning.
C6_Cn2evsFormula ==
    pc = "cn2evs_done" =>
        IF Len(cns) # Len(props) THEN Raised(evs)
        ELSE /\ Returned(evs)
             /\ evs.val[1] = ExpectedF
             /\ ~FIsZero(ExpectedF) => evs.val[2] = FDiv(ExpectedBsum, ExpectedF)

\* cn2evs returned for a normal clone and two tumor clones with a non-zero BAF
C6_Witness ==
    /\ pc = "cn2evs_done"
    /\ Len(cns) = 3 /\ Len(props) = 3
    /\ Returned(evs)
    /\ evs.val[2] = Frac(1, 4)
    /\ cns[2] # cns[3]

\* C7 as stated: for states [(1,1), (2,0)] and proportions [0.5, 0.5], cn2evs
\* returns expected FCN = 2 and expected BAF = 0.
C7_Original ==
    (/\ pc = "cn2evs_done"
     /\ cns = <<<<1, 1>>, <<2, 0>>>>
     /\ props = <<Frac(1, 2), Frac(1, 2)>>)
        => evs = Ok(<<FInt(2), FInt(0)>>)

\* C7 amended: for states [(1,1), (2,0)] and proportions [0.5, 0.5], cn2evs
\* returns expected FCN = 2 and expected BAF = (1*0.5 + 0*0.5) / 2 = 0.25
\* (the normal clone's B allele counts in the numerator).
C7_Amended ==
    (/\ pc = "cn2evs_done"
     /\ cns = <<<<1, 1>>, <<2, 0>>>>
     /\ props = <<Frac(1, 2), Frac(1, 2)>>)
        => evs = Ok(<<FInt(2), Frac(1, 4)>>)

\* cn2evs has run on [(1,1), (2,0)] with [0.5, 0.5]
C7_Witness ==
    /\ pc = "cn2evs_done"
    /\ cns = <<<<1, 1>>, <<2, 0>>>>
    /\ props = <<Frac(1, 2), Frac(1, 2)>>
    /\ Returned(evs)

\* C8: when the proportion-weighted total copy number is zero, cn2evs raises
\* an error and returns no pair (no NaN, no infinity as the expected BAF).
C8_ZeroTotalRaises ==
    (pc = "cn2evs_done" /\ Len(cns) = Len(props) /\ FIsZero(ExpectedF))
        => Raised(evs)

\* the call the claims C16 speak of: the normal clone first at (1,1), as many
\* proportions as states, all non-negative and summing to 1
NormalFirstCall ==
    /\ pc = "cn2evs_done"
    /\ Len(cns) = Len(props)
    /\ cns[1] = <<1, 1>>
    /\ \A i \in 1..Len(props) : ~FLess(props[i], FInt(0))
    /\ FSum(props) = FInt(1)

\* C16 as stated: in every call with the normal clone first at (1,1),
\* non-negative tumor states and non-negative proportions summing to 1, the
\* denominator sum of (A_i + B_i) * proportion_i is strictly positive.
C16_Original ==
    NormalFirstCall => (Returned(evs) /\ FPos(evs.val[1]))

\* C16 amended: in such a call the denominator is strictly positive, and the
\* BAF a finite number, exactly when some clone of positive proportion has a
\* positive total copy number, in particular whenever the proportion of the
\* normal clone is positive; when the proportion of the normal clone is 0 and
\* every tumor clone of positive proportion is at (0,0) the denominator is 0.
C16_Amended ==
    NormalFirstCall =>
        /\ Returned(evs)
        /\ FPos(evs.val[1]) <=>
               \E i \in 1..Len(cns) : FPos(props[i]) /\ cns[i][1] + cns[i][2] > 0
        /\ FPos(props[1]) => FPos(evs.val[1])
        /\ FPos(evs.val[1]) => evs.val[2] \notin {NaN, Inf}
        /\ ~FPos(evs.val[1]) => evs.val[1] = FInt(0)

\* cn2evs has run with a positive proportion of normal cells and a tumor clone
\* of positive proportion and no copies
C16_Witness ==
    /\ NormalFirstCall
    /\ Len(cns) = 2
    /\ cns[2] = <<0, 0>>
    /\ FPos(props[1]) /\ FPos(props[2])
    /\ Returned(evs)

-----------------------------------------------------------------------------
(* Claims about compute_gamma *)

\* the bins of t where every tumor clone has state b and RD > 0
BinsAt(t, b) ==
    {r \in 1..Len(t.rows) :
        /\ \A j \in 1..n_clones_by_name(t) : t.rows[r][CnCloneCol(j)] = b
        /\ FPos(t.rows[r]["RD"])}

RECURSIVE SumRatios(_, _)
\* sum over the bins r of R of fractional_cn[r] / RD[r]
SumRatios(t, R) ==
    IF R = {} THEN FInt(0)
    ELSE LET r == CHOOSE x \in R : TRUE
         IN  FAdd(FDiv(fractional_cn(t, r), t.rows[r]["RD"]), SumRatios(t, R \ {r}))

\* t with the RD of bin r replaced by rd
WithRD(t, r, rd) ==
    [t EXCEPT !.rows[r] = [c \in DOMAIN t.rows[r] |->
                              IF c = "RD" THEN rd ELSE t.rows[r][c]]]

\* C3: with the dominant clone a tumor clone of highest mixing proportion and
\* b the balanced candidate chosen as most frequent in that clone's column,
\* if the set S of bins where every tumor clone has state b and RD > 0 is
\* non-empty then gamma is the mean over S of fcn[bin] / RD[bin], and the RD
\* of a bin outside S (as long as the bin stays outside S) does not change it.
C3_GammaIsMeanOverSelected ==
    pc = "gamma_done" =>
        LET n   == n_clones_by_name(bbc)
            dom == largest_clone(bbc)
            b   == picks[1]
            cnt(x) == Cardinality({r \in 1..Len(bbc.rows) :
                                      bbc.rows[r][CnCloneCol(dom)] = x})
            S   == BinsAt(bbc, b)
        IN  /\ dom \in 1..n
            /\ \A j \in 1..n :
                   ~FLess(bbc.rows[1][UCloneCol(dom)], bbc.rows[1][UCloneCol(j)])
            /\ b \in balanced_options
            /\ \A x \in balanced_options : cnt(x) <= cnt(b)
            /\ S # {} =>
                  /\ gamma = Ok(<<n, FDiv(SumRatios(bbc, S), FInt(Cardinality(S)))>>)
                  /\ \A r \in (1..Len(bbc.rows)) \ S : \A rd \in RDValues :
                         (r \notin BinsAt(WithRD(bbc, r, rd), b))
                            => compute_gamma(WithRD(bbc, r, rd), b, b) = gamma

\* gamma was computed from a proper, non-empty part of a two-clone table: a
\* bin is left out because its second clone is in another state
C3_Witness ==
    /\ pc = "gamma_done"
    /\ n_clones_by_name(bbc) = 2
    /\ Len(picks) = 1
    /\ BinsAt(bbc, picks[1]) # {}
    /\ \E r \in (1..Len(bbc.rows)) \ BinsAt(bbc, picks[1]) :
           bbc.rows[r]["cn_clone1"] = picks[1] /\ bbc.rows[r]["cn_clone2"] # picks[1]
    /\ Returned(gamma) /\ gamma.val[2] # NaN

\* C4: when none of the four balanced candidates selects any bin, compute_gamma
\* ends in an error and returns no gamma (no NaN, no silent default).
C4_ExhaustedRaises ==
    (pc = "gamma_done" /\ \A b \in balanced_options : BinsAt(bbc, b) = {})
        => Raised(gamma)

\* every clone column of every bin, cn_normal included, holds 2|2, every RD is
\* positive and the proportions of every bin sum to 1
AllTwoTwo(t) ==
    \A r \in 1..Len(t.rows) :
        /\ t.rows[r]["cn_normal"] = Tok(2, 2)
        /\ \A j \in 1..n_clones_by_name(t) : t.rows[r][CnCloneCol(j)] = Tok(2, 2)
        /\ FPos(t.rows[r]["RD"])
        /\ FSum(<<t.rows[r]["u_normal"]>> \o
                 [j \in 1..n_clones_by_name(t) |-> t.rows[r][UCloneCol(j)]]) = FInt(1)

RDs(t) == [r \in 1..Len(t.rows) |-> t.rows[r]["RD"]]

\* C5 as stated: on an all-(2,2) table gamma is exactly 4 / mean(RD), also
\* when the RD values of the bins differ.
C5_Original ==
    (pc = "gamma_done" /\ AllTwoTwo(bbc))
        => gamma.val[2] = FDiv(FInt(4), FDiv(FSum(RDs(bbc)), FInt(Len(bbc.rows))))

\* C5 amended: on an all-(2,2) table (cn_normal included, RD > 0, proportions
\* summing to 1) gamma is the mean over the bins of 4 / RD[bin]; this is
\* 4 / mean(RD) when all bins have the same RD.
C5_Amended ==
    (pc = "gamma_done" /\ AllTwoTwo(bbc))
        => /\ Returned(gamma)
           /\ gamma.val[2] =
                 FDiv(FSum([r \in 1..Len(bbc.rows) |-> FDiv(FInt(4), bbc.rows[r]["RD"])]),
                      FInt(Len(bbc.rows)))
           /\ (\A r \in 1..Len(bbc.rows) : bbc.rows[r]["RD"] = bbc.rows[1]["RD"])
                 => gamma.val[2] =
                      FDiv(FInt(4), FDiv(FSum(RDs(bbc)), FInt(Len(bbc.rows))))

\* gamma was computed on an all-(2,2) table whose bins differ in RD
C5_Witness ==
    /\ pc = "gamma_done"
    /\ AllTwoTwo(bbc)
    /\ \E r \in 1..Len(bbc.rows) : bbc.rows[r]["RD"] # bbc.rows[1]["RD"]
    /\ Returned(gamma)

-----------------------------------------------------------------------------
(* Claims about the state codec *)

TwoIntParts(t) ==
    LET parts == Split(t, "|")
    IN  Len(parts) = 2 /\ IntParseable(parts[1]) /\ IntParseable(parts[2])

\* C9: each of str2state, str2cn and cn2total raises whenever splitting the
\* token on '|' does not give exactly two integer-parseable substrings; for a
\* token with exactly two integer parts str2state and str2cn return (A, B)
\* and cn2total returns A + B.
C9_ParseFailsUnlessTwoInts ==
    pc \in {"str2state", "str2cn", "cn2total"} =>
        IF TwoIntParts(token)
        THEN LET A == IntParse(Split(token, "|")[1])
                 B == IntParse(Split(token, "|")[2])
             IN  /\ Returned(parsed)
                 /\ pc = "cn2total" => parsed.val = A + B
                 /\ pc # "cn2total" => parsed.val = <<A, B>>
        ELSE Raised(parsed)

-----------------------------------------------------------------------------
(* Claims about generate_1D2D_plots *)

\* the number of bins of t whose state combination is k
BinCount(t, k) ==
    Cardinality({r \in 1..Len(t.rows) : KeyOf(t.rows[r], n_clones_by_name(t)) = k})

\* C2: the mapping generate_1D2D_plots builds is ordered by descending
\* prevalence: a combination occurring in strictly more bins than another
\* never has the larger rank (so the most frequent combination has rank 1).
C2_MappingByPrevalence ==
    pc = "mapped" =>
        \A k1, k2 \in DOMAIN mapping :
            BinCount(work, k1) > BinCount(work, k2) => mapping[k1] < mapping[k2]

\* generate_1D2D_plots ended with a ValueError before computing anything
Rejected ==
    /\ pc = "failed" /\ err = "ValueError"
    /\ work = NoTable /\ chr_ends = <<>> /\ mapping = <<>>

\* C10: a table without a #CHR column is rejected with an error at once; if
\* some chromosome names start with 'chr' and others do not, an error is
\* raised before any mapping or chr_ends is computed; if none start with
\* 'chr' the prefix is added to every row (of a copy); if all do, the names are
\* unchanged; whenever processing continues every name starts with 'chr'
\* exactly once.
C10_ChrNormalization ==
    pc # "generate" =>
        IF "#CHR" \notin Range(bbc.columns) THEN Rejected
        ELSE LET R == 1..Len(bbc.rows)
                 with == {r \in R : StartsWithChr(bbc.rows[r]["#CHR"])}
             IN  IF with # {} /\ with # R THEN Rejected
                 ELSE /\ err # "ValueError"
                      /\ work.columns = bbc.columns
                      /\ Len(work.rows) = Len(bbc.rows)
                      /\ with = R => work = bbc
                      /\ with = {} =>
                            \A r \in R : \A c \in DOMAIN bbc.rows[r] :
                                work.rows[r][c] =
                                    IF c = "#CHR" THEN ChrPrefix \o bbc.rows[r][c]
                                    ELSE bbc.rows[r][c]
                      /\ \A r \in R :
                            LET name == work.rows[r]["#CHR"]
                            IN  /\ StartsWithChr(name)
                                /\ ~StartsWithChr(SubSeq(name, 4, Len(name)))

\* processing went on to the mapping for a table none of whose chromosome
\* names had the prefix
C10_Witness ==
    /\ pc = "mapped"
    /\ Len(bbc.rows) > NumChrom
    /\ \A r \in 1..Len(bbc.rows) : ~StartsWithChr(bbc.rows[r]["#CHR"])
    /\ \A r \in 1..Len(work.rows) : StartsWithChr(work.rows[r]["#CHR"])

-----------------------------------------------------------------------------
(* Further claims about compute_gamma *)

\* C14: the fallback goes on until a candidate selects a bin or all four were
\* tried: whenever one of 1|1, 2|2, 3|3, 4|4 is the state of all tumor clones
\* in some bin with RD > 0, gamma is the mean over a non-empty bin set (a
\* number, the mean over the bins of one candidate), after at most four
\* attempts.
C14_FallbackUntilFound ==
    (pc = "gamma_done" /\ \E b \in balanced_options : BinsAt(bbc, b) # {}) =>
        /\ Len(picks) <= 4
        /\ Returned(gamma)
        /\ gamma.val[2] # NaN
        /\ \E b \in balanced_options :
               /\ BinsAt(bbc, b) # {}
               /\ gamma.val[2] = FDiv(SumRatios(bbc, BinsAt(bbc, b)),
                                       FInt(Cardinality(BinsAt(bbc, b))))

\* the mixing proportions of every bin are non-negative and sum to 1
ProportionsValid(t) ==
    \A r \in 1..Len(t.rows) :
        LET us == <<t.rows[r]["u_normal"]>> \o
                  [j \in 1..n_clones_by_name(t) |-> t.rows[r][UCloneCol(j)]]
        IN  /\ \A i \in 1..Len(us) : ~FLess(us[i], FInt(0))
            /\ FSum(us) = FInt(1)

\* C15: when the bin set compute_gamma ends with is non-empty and the mixing
\* proportions are non-negative and sum to 1, the gamma returned is a number
\* strictly greater than 0.
C15_GammaPositive ==
    (/\ pc = "gamma_done"
     /\ BinsAt(bbc, picks[Len(picks)]) # {}
     /\ ProportionsValid(bbc))
        => (Returned(gamma) /\ gamma.val[2] # NaN /\ FPos(gamma.val[2]))

\* gamma was computed from the bins of the second candidate, in a table with
\* no normal cells
C15_Witness ==
    /\ pc = "gamma_done"
    /\ Len(picks) = 2
    /\ BinsAt(bbc, picks[2]) # {}
    /\ FIsZero(bbc.rows[1]["u_normal"])
    /\ Returned(gamma)

\* C20: compute_gamma is a function of the table: whichever of the tied
\* candidates max() returns, at the first choice and at the choice after the
\* removal, the gamma returned is the same.
C20_GammaFunctionOfTable ==
    pc = "gamma_done" =>
        \A q1 \in max_by_count(balanced_options, bbc) :
            \A q2 \in max_by_count(balanced_options \ {q1}, bbc) :
                compute_gamma(bbc, q1, q2) = gamma

-----------------------------------------------------------------------------
(* Claims about the colours *)

\* what the colour rule makes of rank r among N combinations
FollowsColourRule(c, r, N) ==
    IF N <= 20
    THEN c.kind = "index" /\ c.at \in 0..19 /\ (r - c.at) % 20 = 0
    ELSE /\ c.kind = "position"
         /\ \E q \in 0..39 : (r - q) % 40 = 0 /\ FMul(c.at, FInt(N)) = FInt(q)

ColoursFollowRule(out) ==
    Returned(out) =>
        /\ DOMAIN out.val = DOMAIN mapping
        /\ \A k \in DOMAIN mapping :
               FollowsColourRule(out.val[k], mapping[k], Cardinality(DOMAIN mapping))

\* C11: with N the number of combinations of the mapping, plot_clusters and
\* plot_genome both replace every rank r by the palette index r mod 20 when
\* N <= 20 and by the colormap position (r mod 40) / N when N > 20 (so N = 20
\* is indexed and N = 21 is positioned), they agree with each other, and the
\* caller's mapping is never changed.
C11_ColourRule ==
    /\ [](/\ ColoursFollowRule(clusters)
          /\ ColoursFollowRule(genome)
          /\ (Returned(clusters) /\ Returned(genome)) => clusters = genome)
    /\ [][mapping' = mapping]_vars

\* both functions have coloured a mapping of exactly 21 combinations
C11_Witness ==
    /\ pc = "colours"
    /\ Cardinality(DOMAIN mapping) = 21
    /\ Returned(clusters) /\ Returned(genome)
    /\ \E k \in DOMAIN mapping : mapping[k] = 21

\* the colormap positions out holds for a mapping of more than 20 combinations
Positions(out) ==
    IF Returned(out) /\ Cardinality(DOMAIN mapping) > 20
    THEN {<<mapping[k], out.val[k].at>> : k \in DOMAIN mapping}
    ELSE {}

\* C17 as stated: for N > 20 and every rank r in 1..N the position
\* (r mod 40) / N is in [0, 1): never 1 or more.
C17_Original ==
    \A p \in Positions(clusters) \cup Positions(genome) :
        ~FLess(p[2], FInt(0)) /\ FLess(p[2], FInt(1))

\* C17 amended: for N > 20 and every rank r in 1..N the position
\* (r mod 40) / N is in the closed interval [0, 1]; it is exactly 1 for the
\* last rank r = N of a mapping with 21 <= N <= 39 and below 1 otherwise.
C17_Amended ==
    \A p \in Positions(clusters) \cup Positions(genome) :
        LET N == Cardinality(DOMAIN mapping)
        IN  /\ ~FLess(p[2], FInt(0))
            /\ ~FLess(FInt(1), p[2])
            /\ (p[2] = FInt(1)) <=> (p[1] = N /\ N <= 39)

\* plot_genome has positioned the ranks of a mapping of 21 combinations and
\* the last rank sits at position 1
C17_Witness ==
    /\ Returned(genome)
    /\ Cardinality(DOMAIN mapping) = 21
    /\ \E k \in DOMAIN mapping : genome.val[k] = PalettePosition(FInt(1))

-----------------------------------------------------------------------------
(* Claims about the keys looked up in the mapping *)

\* the key of bin row of the table handed to the plot functions has the
\* claimed shape and is a key of the mapping
GoodKey(key, row) ==
    LET n == n_clones_by_name(passed)
    IN  /\ key \in DOMAIN mapping
        /\ IF n = 1 THEN key = passed.rows[row]["cn_clone1"]
           ELSE Len(key) = n /\ \A j \in 1..n : key[j] = passed.rows[row][CnCloneCol(j)]

\* C12: with one tumor clone and with several, plot_clusters and plot_genome
\* raise no KeyError: the key of every bin and of every centroid is a key of
\* the mapping built by generate_1D2D_plots, a bin and the centroid of its
\* combination get the colour of the same rank, and the key is the bare state
\* string with one tumor clone and the tuple of state strings with several.
C12_KeysFound ==
    /\ clusters # NoCall =>
          /\ Returned(clusters)
          /\ \A i \in 1..Len(clusters.val.samples) :
                LET smp == clusters.val.samples[i]
                IN  /\ \A k \in 1..Len(smp.points) :
                          /\ GoodKey(smp.points[k].key, smp.points[k].row)
                          /\ smp.points[k].c = PaletteIndex(mapping[smp.points[k].key] % 20)
                          /\ \E q \in 1..Len(smp.centroids) :
                                 /\ smp.centroids[q].key = smp.points[k].key
                                 /\ smp.centroids[q].c = smp.points[k].c
                    /\ \A q \in 1..Len(smp.centroids) :
                          /\ smp.centroids[q].key \in DOMAIN mapping
                          /\ \E k \in 1..Len(smp.points) :
                                 smp.points[k].key = smp.centroids[q].key
    /\ genome # NoCall =>
          /\ Returned(genome)
          /\ \A i \in 1..Len(genome.val.samples) :
                \A k \in 1..Len(genome.val.samples[i].segs) :
                    LET seg == genome.val.samples[i].segs[k]
                    IN  /\ GoodKey(seg.key, seg.row)
                        /\ seg.c = PaletteIndex(mapping[seg.key] % 20)

\* both plots were drawn for a table of one tumor clone and two samples whose
\* bins are in two different states
C12_Witness ==
    /\ pc = "done"
    /\ n_clones_by_name(passed) = 1
    /\ Len(clusters.val.samples) = 2
    /\ Cardinality(DOMAIN mapping) = 2
    /\ Len(genome.val.samples) = 2

-----------------------------------------------------------------------------
(* Claims about the BAF mirroring *)

\* C13: every plotted BAF is the observed BAF b or 1 - b, and the flips of the
\* bins of a sample are those of a generator reseeded for that sample: they
\* are the same as when the table holds the bins of that sample alone,
\* whatever other samples and however many of their bins the table holds.
C13_FlipsPerSample ==
    pc = "done" =>
        /\ \A r \in 1..Len(work.rows) :
               genome.val.big.rows[r]["BAF"] \in
                   {work.rows[r]["BAF"], FSub(FInt(1), work.rows[r]["BAF"])}
        /\ \A i \in 1..Len(genome.val.samples) :
               LET idx == rows_of_sample(passed, genome.val.samples[i].sample)
               IN  \A k \in 1..Len(idx) :
                       genome.val.flips[idx[k]] = genome_flips(sub_table(passed, idx))[k]

\* the rows of the sample drawn i-th by plot_genome, before plot_genome's
\* mirroring
Unmirrored(i) == sub_table(passed, rows_of_sample(passed, genome.val.samples[i].sample))

\* C18: mirroring changes only the column BAF of a working copy: the tables
\* of the caller are never written, the mirrored copies agree with the
\* original in every other column, the gamma of each sample is the gamma of
\* its un-mirrored bins (and the same in both plots), and the expected
\* (FCN, BAF) of every bin and of every centroid is what cn2evs gives on the
\* un-mirrored table.
C18_MirroringFrame ==
    /\ [](pc = "done" =>
            /\ genome.val.big.columns = passed.columns
            /\ Len(genome.val.big.rows) = Len(passed.rows)
            /\ \A r \in 1..Len(passed.rows) :
                   \A c \in Range(passed.columns) \ {"BAF"} :
                       /\ genome.val.big.rows[r][c] = passed.rows[r][c]
                       /\ passed.rows[r][c] = work.rows[r][c]
            /\ \A i \in 1..Len(genome.val.samples) :
                   LET smp == genome.val.samples[i]
                       n   == n_clones_by_name(passed)
                   IN  /\ smp.gamma = compute_gamma_in(Unmirrored(i), order).val[2]
                       /\ smp.gamma = clusters.val.samples[i].gamma
                       /\ smp.props = props_of(Unmirrored(i), n)
                       /\ \A k \in 1..Len(smp.segs) :
                              <<smp.segs[k].y_fcn, smp.segs[k].y_baf>> =
                                  cn2evs(state_of(clone_states(passed.rows[smp.segs[k].row], n)),
                                         props_of(Unmirrored(i), n)).val
                       /\ \A q \in 1..Len(clusters.val.samples[i].centroids) :
                              LET cen == clusters.val.samples[i].centroids[q]
                              IN  <<cen.ey, cen.ex>> =
                                      cn2evs(state_of(IF n = 1 THEN <<cen.key>> ELSE cen.key),
                                             props_of(sub_table(work, rows_of_sample(work, smp.sample)), n)).val)
    /\ [][bbc' = bbc /\ (pc # "mapped" => passed' = passed)]_vars

\* both mirroring steps have reflected some bin of a two-clone table, and the
\* first sample has a gamma
C18_Witness ==
    /\ pc = "done"
    /\ resample
    /\ passed # work
    /\ genome.val.big # passed
    /\ genome.val.samples[1].gamma # NaN

-----------------------------------------------------------------------------
(* Claims about the chromosome axis *)

\* the largest END among the bins of chromosome k of table t
MaxEndOn(t, k) ==
    LET E == {t.rows[r]["END"] : r \in {x \in 1..Len(t.rows) : t.rows[x]["#CHR"] = Chr(k)}}
    IN  CHOOSE e \in E : \A f \in E : f <= e

\* C19: chr_ends has 23 entries, starts at 0, grows by the largest END of each
\* chromosome in the order 1..22 and never decreases; every bin of chromosome
\* k of every sample is drawn from START + chr_ends[k-1] to END + chr_ends[k-1],
\* inside [chr_ends[k-1], chr_ends[k]].
C19_AxisLayout ==
    pc = "done" =>
        /\ Len(chr_ends) = NumChrom + 1
        /\ chr_ends[1] = 0
        /\ \A k \in 1..NumChrom :
               /\ chr_ends[k + 1] = chr_ends[k] + MaxEndOn(work, k)
               /\ chr_ends[k] <= chr_ends[k + 1]
        /\ \A r \in 1..Len(passed.rows) :
               LET k == chr_number(passed.rows[r]["#CHR"])
               IN  \E i \in 1..Len(genome.val.samples) :
                   \E q \in 1..Len(genome.val.samples[i].segs) :
                       LET seg == genome.val.samples[i].segs[q]
                       IN  /\ seg.row = r
                           /\ seg.x0 = passed.rows[r]["START"] + chr_ends[k]
                           /\ seg.x1 = passed.rows[r]["END"] + chr_ends[k]
                           /\ chr_ends[k] <= seg.x0
                           /\ seg.x0 <= seg.x1
                           /\ seg.x1 <= chr_ends[k + 1]

-----------------------------------------------------------------------------
(* Claims about the clones of a table *)

\* the number of the bin drawn as seg among the bins of its sample, the i-th
\* sample drawn by plot_genome
BinOfSample(i, seg) ==
    LET idx == rows_of_sample(passed, genome.val.samples[i].sample)
    IN  CHOOSE j \in 1..Len(idx) : idx[j] = seg.row

\* C21: for every bin of a sample, the fractional copy number compute_gamma
\* uses counts the normal clone with total copy number 2 whatever the table
\* holds, and so equals the expected FCN cn2evs returns for [(1,1)] + the
\* bin's tumor states with the proportions of the sample's first row, which
\* is drawn as the bin's expected-FCN line.
C21_FcnIsExpectedFcn ==
    pc = "done" =>
        \A i \in 1..Len(genome.val.samples) :
            \A k \in 1..Len(genome.val.samples[i].segs) :
                LET seg == genome.val.samples[i].segs[k]
                IN  fractional_cn(Unmirrored(i), BinOfSample(i, seg)) = seg.y_fcn

\* what plot_clusters or plot_genome returned is of n tumor clones: the clone
\* count, the proportions and the keys of each sample
OfClones(out, n) ==
    out # NoCall =>
        /\ Returned(out)
        /\ \A i \in 1..Len(out.val.samples) :
               /\ out.val.samples[i].n_clones = n
               /\ Len(out.val.samples[i].props) = n + 1
               /\ out.val.samples[i].gamma =
                      compute_gamma_in(sub_table(passed,
                          rows_of_sample(passed, out.val.samples[i].sample)), order).val[2]

\* C22: on every table of 13 + 2n columns with n >= 1 tumor clones, the
\* clone count plot_clusters and plot_genome take from the column names is
\* the one compute_gamma takes from the number of columns: the assertion
\* n_clones2 == n_clones never fails, and all n clones are in the key of the
\* mapping, in the proportions and in gamma.
C22_CloneCountsAgree ==
    LET n == (Len(bbc.columns) - 13) \div 2
    IN  /\ err # "AssertionError"
        /\ mapping # <<>> =>
               \A key \in DOMAIN mapping : IF n = 1 THEN key \in StateTokens
                                           ELSE Len(key) = n
        /\ OfClones(clusters, n)
        /\ OfClones(genome, n)

====
